---- MODULE Spec2Model ----
(***************************************************************************)
(* Control-flow graph builder and Mermaid serializer of app.py:            *)
(* generate_mermaid_flowchart / parse_code_to_ast and its nested           *)
(* get_node_id, add_node and visit.                                        *)
(*                                                                         *)
(* The recursion of visit is modelled by an explicit stack of activation   *)
(* frames: one frame per loop of the source that calls visit on a list of  *)
(* statements (the main loop, the inlining loop, the two branch loops of   *)
(* an if, the loop body, the generic fallback).  A frame holds the list,   *)
(* the position in it, the running predecessor id and the loop context     *)
(* handed to the children.                                                 *)
(*                                                                         *)
(* Ids: Python's f"N{k}" is the tuple <<"N", k>>; Python's None is the     *)
(* empty tuple, and the truthiness tests `if x:` are Truthy(x).            *)
(* Text: a source snippet (what ast.unparse returns) is a sequence of      *)
(* tokens, so that label building and quote escaping are computed.         *)
(***************************************************************************)
EXTENDS Integers, Sequences, FiniteSets, TLC

\* ------------------------------------------------------------------ bounds

\* Stand-in for the interpreter's recursion limit: the number of nested
\* activations of visit after which Python raises RecursionError.
MaxDepth == 7

\* longest block of simple statements in a branch, a loop body or a function
MaxBlock == 2

\* longest straight-line main body
MaxMain == 3

\* ------------------------------------------------------------ basic values

None == <<>>

Truthy(x) == x # None

NodeId(k) == <<"N", k>>

\* the shape catalog: pairs of delimiters used by the builder
ShapeIO         == <<"[/", "/]">>
ShapeProcess    == <<"[", "]">>
ShapeTerminator == <<"(", ")">>
ShapeDecision   == <<"{", "}">>
ShapeJoiner     == <<"((", "))">>
ShapeLoop       == <<"{{", "}}">>
ShapeSubroutine == <<"[[", "]]">>

IONames == {"input", "print"}

\* ---------------------------------------------------------------- the AST

\* One record shape for every statement kind:
\*   type    the ast class name
\*   text    ast.unparse of the statement (Assign, Expr, Return), of the
\*           test (If, While) or of the target (For), as tokens
\*   func    for an Expr whose value is a Call of a plain Name: that name;
\*           for a FunctionDef: its name; "" otherwise
\*   body    node.body (for kinds of the generic fallback: the child
\*           statements that ast.iter_child_nodes yields)
\*   orelse  node.orelse of an If
Stmt(type, text, func, body, orelse) ==
    [type |-> type, text |-> text, func |-> func, body |-> body, orelse |-> orelse]

NoStmt == Stmt("", <<>>, "", <<>>, <<>>)

AssignS    == Stmt("Assign", <<"x", " = ", "1">>, "", <<>>, <<>>)
AugAssignS == Stmt("AugAssign", <<"x", " += ", "1">>, "", <<>>, <<>>)
CallS(f)   == Stmt("Expr", <<f, "(", ")">>, f, <<>>, <<>>)
PrintS     == Stmt("Expr", <<"print", "(", "\"", "it's", "\"", ")">>, "print", <<>>, <<>>)
ReturnS    == Stmt("Return", <<"return ", "x">>, "", <<>>, <<>>)
BreakS     == Stmt("Break", <<"break">>, "", <<>>, <<>>)
ContinueS  == Stmt("Continue", <<"continue">>, "", <<>>, <<>>)
IfS(b, e)  == Stmt("If", <<"x", " > ", "0">>, "", b, e)
WhileS(b)  == Stmt("While", <<"x", " < ", "10">>, "", b, <<>>)
ForS(b)    == Stmt("For", <<"i">>, "", b, <<>>)
OtherS(b)  == Stmt("With", <<>>, "", b, <<>>)
DefS(f, b) == Stmt("FunctionDef", <<>>, f, b, <<>>)

\* ast.unparse(node).strip(): the stored text without blank tokens at either end
RECURSIVE Strip(_)
Strip(t) ==
    IF t = <<>> THEN t
    ELSE IF Head(t) = " " THEN Strip(Tail(t))
    ELSE IF t[Len(t)] = " " THEN Strip(SubSeq(t, 1, Len(t) - 1))
    ELSE t

Unparse(node) == Strip(node.text)

\* ------------------------------------------------- insertion-ordered dicts

\* A Python dict is the sequence of its items in insertion order.
DictKeys(d) == [i \in 1..Len(d) |-> d[i].key]

DictHas(d, k) == \E i \in 1..Len(d) : d[i].key = k

DictGet(d, k) == d[CHOOSE i \in 1..Len(d) : d[i].key = k].val

\* d[k] = v : an existing key keeps its place and takes the new value
DictSet(d, k, v) ==
    IF DictHas(d, k)
    THEN [i \in 1..Len(d) |-> IF d[i].key = k THEN [key |-> k, val |-> v] ELSE d[i]]
    ELSE Append(d, [key |-> k, val |-> v])


\* ------------------------------------------------------------------- state

VARIABLES
    code,          \* the input of generate_mermaid_flowchart: [parses, tree]
    pc,            \* "start", "visit", "built" (parse_code_to_ast returned), "returned"
    exc,           \* "" or the exception caught by generate_mermaid_flowchart
    out,           \* the returned Mermaid text, as a sequence of lines
    nodes,         \* dict  node id -> [label, shape]
    edges,         \* list of <<src, tgt, label>>
    functions,     \* dict  function name -> body
    node_counter,
    stack,         \* the activations of visit's statement loops, innermost last
    last_node_id,  \* the final chained value of the main loop
    reentered,     \* history: a function was inlined while its body was being inlined
    deadIfs        \* history: <<c, k>> for every if that returned None: its decision
                   \* node is N<c> and node_counter was k when it returned

vars == <<code, pc, exc, out, nodes, edges, functions, node_counter, stack,
          last_node_id, reentered, deadIfs>>

\* -------------------------------------------------- get_node_id / add_node

\* get_node_id without `node_counter += 1`
get_node_id_NoIncrement(counter) == [id |-> NodeId(counter), counter |-> counter]

get_node_id(counter) == [id |-> NodeId(counter), counter |-> counter + 1]

add_node(ns, counter, label, shape) ==
    LET g == get_node_id(counter) IN
    [id      |-> g.id,
     nodes   |-> DictSet(ns, g.id, [label |-> label, shape |-> shape]),
     counter |-> g.counter]

\* ------------------------------------------------------------- serializer

\* label.replace('"', '&quot;')
Escape(label) == [i \in 1..Len(label) |-> IF label[i] = "\"" THEN "&quot;" ELSE label[i]]

HeaderLine == <<"graph TD">>

\* f'    {node_id}{shape_start}"{label}"{shape_end}'
NodeLine(item) ==
    <<"node", item.key, item.val.shape[1],
      <<"\"">> \o Escape(item.val.label) \o <<"\"">>, item.val.shape[2]>>

\* f'    {src} -->|{label}| {tgt}'  or  f'    {src} --> {tgt}'
EdgeLine(e) == IF e[3] # "" THEN <<"edge", e[1], "-->|", e[3], "|", e[2]>>
                            ELSE <<"edge", e[1], "-->", e[2]>>

EdgeEmitted(e) == Truthy(e[1]) /\ Truthy(e[2])

Mermaid(ns, es) ==
    LET kept == SelectSeq(es, EdgeEmitted) IN
    <<HeaderLine>> \o [i \in 1..Len(ns) |-> NodeLine(ns[i])]
                   \o [i \in 1..Len(kept) |-> EdgeLine(kept[i])]

\* "graph TD\n    A[Error: Could not parse code]"
ErrorGraph == <<HeaderLine, <<"node", <<"A">>, "[", <<"Error: Could not parse code">>, "]">>>>

\* ------------------------------------------------------------------ frames

Frame(kind, node, stmts, cur, ls, le, id1, id2) ==
    [kind |-> kind, node |-> node, stmts |-> stmts, i |-> 1, cur |-> cur,
     ls |-> ls, le |-> le, id1 |-> id1, id2 |-> id2]

\* The loop of a frame still has a statement to visit.  Every loop of the
\* source guards the call by `if <running id>:` except the inlining loop.
Guarded(f) == f.kind # "inline"

Active(f) == /\ f.i <= Len(f.stmts)
             /\ IF Guarded(f) THEN Truthy(f.cur) ELSE TRUE

Top == stack[Len(stack)]

Child == Top.stmts[Top.i]

\* the value returned by a finished visit becomes the caller's running id
ReturnTo(st, v) == [st EXCEPT ![Len(st)] = [@ EXCEPT !.cur = v, !.i = @ + 1]]

Pop(st) == SubSeq(st, 1, Len(st) - 1)

LeafTypes == {"Assign", "AugAssign", "Return", "Break", "Continue"}

\* what `func_id in functions` decides at the call site
IsInlined(node, fns) ==
    /\ node.type = "Expr"
    /\ node.func # ""
    /\ node.func \notin IONames
    /\ DictHas(fns, node.func)

\* the visit of this statement calls visit again
Recurses(node, fns) ==
    IF node.type = "Expr" THEN IsInlined(node, fns) ELSE node.type \notin LeafTypes

Visiting(types) ==
    /\ pc = "visit"
    /\ Active(Top)
    /\ Child.type \in types


\* --------------------------------------------------- parse_code_to_ast: head

\* the pre-pass keeping the first definition of a name
RECURSIVE CollectFunctions_KeepFirst(_, _)
CollectFunctions_KeepFirst(body, fns) ==
    IF body = <<>> THEN fns
    ELSE CollectFunctions_KeepFirst(Tail(body),
                          IF Head(body).type = "FunctionDef" /\ ~DictHas(fns, Head(body).func)
                          THEN DictSet(fns, Head(body).func, Head(body).body)
                          ELSE fns)

\* the pre-pass over tree.body: functions[node.name] = {"body": node.body, ...}
\* (the captured parameter names are never read and are left out)
RECURSIVE CollectFunctions(_, _)
CollectFunctions(body, fns) ==
    IF body = <<>> THEN fns
    ELSE CollectFunctions(Tail(body),
                          IF Head(body).type = "FunctionDef"
                          THEN DictSet(fns, Head(body).func, Head(body).body)
                          ELSE fns)

IsNotFunctionDef(n) == n.type # "FunctionDef"

MainBody(tree) == SelectSeq(tree, IsNotFunctionDef)

\* list(functions.keys())[0]
FirstFuncName(fns) == DictKeys(fns)[1]

\* the frame of the orchestrator's loop; for the implicit entry point it
\* remembers the name of the function whose body it walks
EntryFrame(name, body, start) ==
    Frame("main", [NoStmt EXCEPT !.func = name], body, start, None, None, None, None)

\* ast.parse succeeded: function table, Start, choice of the entry sequence
BeginBuild ==
    /\ pc = "start"
    /\ code.parses
    /\ LET fns   == CollectFunctions(code.tree, <<>>)
           start == add_node(<<>>, 0, <<"Start">>, ShapeJoiner)
           main  == MainBody(code.tree)
       IN  /\ functions' = fns
           /\ IF main = <<>> /\ fns # <<>>
              THEN LET first == FirstFuncName(fns)
                       fd    == add_node(start.nodes, start.counter,
                                         <<"def ", first, "(...)">>, ShapeSubroutine)
                   IN  /\ nodes' = fd.nodes
                       /\ node_counter' = fd.counter
                       /\ edges' = <<<<start.id, fd.id, "">>>>
                       /\ stack' = <<EntryFrame(first, DictGet(fns, first), fd.id)>>
              ELSE /\ nodes' = start.nodes
                   /\ node_counter' = start.counter
                   /\ edges' = <<>>
                   /\ stack' = <<EntryFrame("", main, start.id)>>
    /\ pc' = "visit"
    /\ UNCHANGED <<code, exc, out, last_node_id, reentered, deadIfs>>

\* ast.parse raised: caught by generate_mermaid_flowchart
RaiseSyntaxError ==
    /\ pc = "start"
    /\ ~code.parses
    /\ exc' = "SyntaxError"
    /\ out' = ErrorGraph
    /\ pc' = "returned"
    /\ UNCHANGED <<code, nodes, edges, functions, node_counter, stack,
                   last_node_id, reentered, deadIfs>>

\* ------------------------------------------------------------ visit: leaves

VisitAssign ==
    /\ Visiting({"Assign", "AugAssign"})
    /\ LET n == add_node(nodes, node_counter, Unparse(Child), ShapeIO) IN
       /\ nodes' = n.nodes
       /\ node_counter' = n.counter
       /\ edges' = Append(edges, <<Top.cur, n.id, "">>)
       /\ stack' = ReturnTo(stack, n.id)
    /\ UNCHANGED <<code, pc, exc, out, functions, last_node_id, reentered, deadIfs>>

ExprShape(node) == IF node.func \in IONames THEN ShapeIO ELSE ShapeProcess

\* the expression statement's node is added but the caller keeps chaining
\* from the predecessor
VisitExpr_ReturnsParent ==
    /\ Visiting({"Expr"})
    /\ ~IsInlined(Child, functions)
    /\ LET n == add_node(nodes, node_counter, Unparse(Child), ExprShape(Child)) IN
       /\ nodes' = n.nodes
       /\ node_counter' = n.counter
       /\ edges' = Append(edges, <<Top.cur, n.id, "">>)
       /\ stack' = ReturnTo(stack, Top.cur)
    /\ UNCHANGED <<code, pc, exc, out, functions, last_node_id, reentered, deadIfs>>

\* an expression statement that is not an inlined call
VisitExpr ==
    /\ Visiting({"Expr"})
    /\ ~IsInlined(Child, functions)
    /\ LET n == add_node(nodes, node_counter, Unparse(Child), ExprShape(Child)) IN
       /\ nodes' = n.nodes
       /\ node_counter' = n.counter
       /\ edges' = Append(edges, <<Top.cur, n.id, "">>)
       /\ stack' = ReturnTo(stack, n.id)
    /\ UNCHANGED <<code, pc, exc, out, functions, last_node_id, reentered, deadIfs>>

VisitReturn ==
    /\ Visiting({"Return"})
    /\ LET n == add_node(nodes, node_counter, Unparse(Child), ShapeTerminator) IN
       /\ nodes' = n.nodes
       /\ node_counter' = n.counter
       /\ edges' = Append(edges, <<Top.cur, n.id, "">>)
       /\ stack' = ReturnTo(stack, None)
    /\ UNCHANGED <<code, pc, exc, out, functions, last_node_id, reentered, deadIfs>>

\* break without the `if loop_exit_id:` test
VisitBreak_AlwaysEdge ==
    /\ Visiting({"Break"})
    /\ edges' = Append(edges, <<Top.cur, Top.le, "break">>)
    /\ stack' = ReturnTo(stack, None)
    /\ UNCHANGED <<code, pc, exc, out, nodes, functions, node_counter,
                   last_node_id, reentered, deadIfs>>

VisitBreak ==
    /\ Visiting({"Break"})
    /\ edges' = IF Truthy(Top.le) THEN Append(edges, <<Top.cur, Top.le, "break">>)
                                  ELSE edges
    /\ stack' = ReturnTo(stack, None)
    /\ UNCHANGED <<code, pc, exc, out, nodes, functions, node_counter,
                   last_node_id, reentered, deadIfs>>

VisitContinue ==
    /\ Visiting({"Continue"})
    /\ edges' = IF Truthy(Top.ls) THEN Append(edges, <<Top.cur, Top.ls, "continue">>)
                                  ELSE edges
    /\ stack' = ReturnTo(stack, None)
    /\ UNCHANGED <<code, pc, exc, out, nodes, functions, node_counter,
                   last_node_id, reentered, deadIfs>>

\* ------------------------------------------------------ visit: inlined call

\* the function is already being inlined (or walked as the entry point)
OnStack(name, st) ==
    \E k \in 1..Len(st) : st[k].kind \in {"main", "inline"} /\ st[k].node.func = name

\* a call of a function that is already being inlined is not inlined again
VisitCall_CutsCycle ==
    /\ Visiting({"Expr"})
    /\ IsInlined(Child, functions)
    /\ Len(stack) < MaxDepth
    /\ LET n == add_node(nodes, node_counter, Unparse(Child), ShapeProcess) IN
       /\ nodes' = n.nodes
       /\ node_counter' = n.counter
       /\ edges' = Append(edges, <<Top.cur, n.id, "">>)
       /\ stack' = IF OnStack(Child.func, stack)
                   THEN ReturnTo(stack, n.id)
                   ELSE Append(stack, Frame("inline", Child, DictGet(functions, Child.func),
                                            n.id, Top.ls, Top.le, None, None))
    /\ reentered' = IF OnStack(Child.func, stack) THEN TRUE ELSE reentered
    /\ UNCHANGED <<code, pc, exc, out, functions, last_node_id, deadIfs>>

\* call-site node, then the loop over functions[func_id]["body"]
VisitCall ==
    /\ Visiting({"Expr"})
    /\ IsInlined(Child, functions)
    /\ Len(stack) < MaxDepth
    /\ LET n == add_node(nodes, node_counter, Unparse(Child), ShapeProcess) IN
       /\ nodes' = n.nodes
       /\ node_counter' = n.counter
       /\ edges' = Append(edges, <<Top.cur, n.id, "">>)
       /\ stack' = Append(stack, Frame("inline", Child, DictGet(functions, Child.func),
                                       n.id, Top.ls, Top.le, None, None))
    /\ reentered' = IF OnStack(Child.func, stack) THEN TRUE ELSE reentered
    /\ UNCHANGED <<code, pc, exc, out, functions, last_node_id, deadIfs>>

\* return last_node_in_func
InlineFinish ==
    /\ pc = "visit"
    /\ Top.kind = "inline"
    /\ ~Active(Top)
    /\ stack' = ReturnTo(Pop(stack), Top.cur)
    /\ UNCHANGED <<code, pc, exc, out, nodes, edges, functions, node_counter,
                   last_node_id, reentered, deadIfs>>


\* ---------------------------------------------------------------- visit: if

\* decision node, then the loop over node.body from the decision node
VisitIf ==
    /\ Visiting({"If"})
    /\ Len(stack) < MaxDepth
    /\ LET n == add_node(nodes, node_counter, <<"if ">> \o Unparse(Child), ShapeDecision) IN
       /\ nodes' = n.nodes
       /\ node_counter' = n.counter
       /\ edges' = Append(edges, <<Top.cur, n.id, "">>)
       /\ stack' = Append(stack, Frame("ifbody", Child, Child.body, n.id,
                                       Top.ls, Top.le, n.id, None))
    /\ UNCHANGED <<code, pc, exc, out, functions, last_node_id, reentered, deadIfs>>

\* the true branch is over: false_end = cond_id, then the loop over node.orelse
IfBodyDone ==
    /\ pc = "visit"
    /\ Top.kind = "ifbody"
    /\ ~Active(Top)
    /\ stack' = [stack EXCEPT ![Len(stack)] =
                    Frame("ifelse", Top.node, Top.node.orelse, Top.id1,
                          Top.ls, Top.le, Top.id1, Top.cur)]
    /\ UNCHANGED <<code, pc, exc, out, nodes, edges, functions, node_counter,
                   last_node_id, reentered, deadIfs>>

\* `if not true_end and not false_end: return None`
BothTerminate(true_end, false_end) == ~Truthy(true_end) /\ ~Truthy(false_end)

\* the edges into the merge node, in the order the source appends them
MergeEdges(node, cond_id, true_end, false_end, merge_id) ==
       (IF Truthy(true_end)  THEN <<<<true_end, merge_id, "Yes">>>> ELSE <<>>)
    \o (IF Truthy(false_end) THEN <<<<false_end, merge_id, "No">>>> ELSE <<>>)
    \o (IF node.body = <<>>   THEN <<<<cond_id, merge_id, "Yes">>>> ELSE <<>>)
    \o (IF node.orelse = <<>> THEN <<<<cond_id, merge_id, "No">>>>  ELSE <<>>)

\* the merge node is created without the test for two terminated branches
IfFinish_AlwaysMerge ==
    /\ pc = "visit"
    /\ Top.kind = "ifelse"
    /\ ~Active(Top)
    /\ LET m == add_node(nodes, node_counter, <<" ">>, ShapeJoiner) IN
       /\ nodes' = m.nodes
       /\ node_counter' = m.counter
       /\ edges' = edges \o MergeEdges(Top.node, Top.id1, Top.id2, Top.cur, m.id)
       /\ stack' = ReturnTo(Pop(stack), m.id)
    /\ UNCHANGED <<code, pc, exc, out, functions, last_node_id, reentered, deadIfs>>

\* both branches are over: no merge, or the merge node and its edges
IfFinish ==
    /\ pc = "visit"
    /\ Top.kind = "ifelse"
    /\ ~Active(Top)
    /\ LET true_end  == Top.id2
           false_end == Top.cur
       IN  IF BothTerminate(true_end, false_end)
           THEN /\ stack' = ReturnTo(Pop(stack), None)
                /\ deadIfs' = deadIfs \cup {<<Top.id1[2], node_counter>>}
                /\ UNCHANGED <<nodes, edges, node_counter>>
           ELSE LET m == add_node(nodes, node_counter, <<" ">>, ShapeJoiner) IN
                /\ nodes' = m.nodes
                /\ node_counter' = m.counter
                /\ edges' = edges \o MergeEdges(Top.node, Top.id1, true_end, false_end, m.id)
                /\ stack' = ReturnTo(Pop(stack), m.id)
                /\ UNCHANGED deadIfs
    /\ UNCHANGED <<code, pc, exc, out, functions, last_node_id, reentered>>

\* --------------------------------------------------------- visit: for/while

LoopType(node) == IF node.type = "For" THEN "For" ELSE "While"

\* the loop context is set by the outermost loop only and kept by nested ones
\* (loop_start_id or loop_id, loop_exit_id or after_loop_id)
VisitLoop_OuterContext ==
    /\ Visiting({"For", "While"})
    /\ Len(stack) < MaxDepth
    /\ LET h == add_node(nodes, node_counter,
                         <<LoopType(Child), " ">> \o Unparse(Child), ShapeLoop)
           x == add_node(h.nodes, h.counter, <<" ">>, ShapeJoiner)
       IN  /\ nodes' = x.nodes
           /\ node_counter' = x.counter
           /\ edges' = Append(edges, <<Top.cur, h.id, "">>)
           /\ stack' = Append(stack, Frame("loop", Child, Child.body, h.id,
                                           IF Truthy(Top.ls) THEN Top.ls ELSE h.id,
                                           IF Truthy(Top.le) THEN Top.le ELSE x.id,
                                           h.id, x.id))
    /\ UNCHANGED <<code, pc, exc, out, functions, last_node_id, reentered, deadIfs>>

\* header node, exit node, then the loop over node.body with the new context
VisitLoop ==
    /\ Visiting({"For", "While"})
    /\ Len(stack) < MaxDepth
    /\ LET h == add_node(nodes, node_counter,
                         <<LoopType(Child), " ">> \o Unparse(Child), ShapeLoop)
           x == add_node(h.nodes, h.counter, <<" ">>, ShapeJoiner)
       IN  /\ nodes' = x.nodes
           /\ node_counter' = x.counter
           /\ edges' = Append(edges, <<Top.cur, h.id, "">>)
           /\ stack' = Append(stack, Frame("loop", Child, Child.body, h.id,
                                           h.id, x.id, h.id, x.id))
    /\ UNCHANGED <<code, pc, exc, out, functions, last_node_id, reentered, deadIfs>>

\* the body is over: back edge, "End Loop" edge, return after_loop_id
LoopFinish ==
    /\ pc = "visit"
    /\ Top.kind = "loop"
    /\ ~Active(Top)
    /\ edges' = (IF Truthy(Top.cur) THEN Append(edges, <<Top.cur, Top.id1, "Loop">>)
                                    ELSE edges)
                \o <<<<Top.id1, Top.id2, "End Loop">>>>
    /\ stack' = ReturnTo(Pop(stack), Top.id2)
    /\ UNCHANGED <<code, pc, exc, out, nodes, functions, node_counter,
                   last_node_id, reentered, deadIfs>>

\* --------------------------------------------------- visit: generic fallback

KnownTypes == {"Assign", "AugAssign", "Expr", "Return", "If", "For", "While",
               "Break", "Continue"}

\* last_id = parent_id, then the loop over the child nodes
VisitOther ==
    /\ pc = "visit"
    /\ Active(Top)
    /\ Child.type \notin KnownTypes
    /\ Len(stack) < MaxDepth
    /\ stack' = Append(stack, Frame("other", Child, Child.body, Top.cur,
                                    Top.ls, Top.le, None, None))
    /\ UNCHANGED <<code, pc, exc, out, nodes, edges, functions, node_counter,
                   last_node_id, reentered, deadIfs>>

\* return last_id
OtherFinish ==
    /\ pc = "visit"
    /\ Top.kind = "other"
    /\ ~Active(Top)
    /\ stack' = ReturnTo(Pop(stack), Top.cur)
    /\ UNCHANGED <<code, pc, exc, out, nodes, edges, functions, node_counter,
                   last_node_id, reentered, deadIfs>>

\* ------------------------------------------------- failure and completion

\* the handler renders what the failed build had created
RaiseRecursionError_PartialGraph ==
    /\ pc = "visit"
    /\ Active(Top)
    /\ Recurses(Child, functions)
    /\ Len(stack) >= MaxDepth
    /\ exc' = "RecursionError"
    /\ out' = Mermaid(nodes, edges)
    /\ pc' = "returned"
    /\ stack' = <<>>
    /\ UNCHANGED <<code, nodes, edges, functions, node_counter,
                   last_node_id, reentered, deadIfs>>

\* one more nested call of visit than the interpreter allows: RecursionError,
\* caught by generate_mermaid_flowchart
RaiseRecursionError ==
    /\ pc = "visit"
    /\ Active(Top)
    /\ Recurses(Child, functions)
    /\ Len(stack) >= MaxDepth
    /\ exc' = "RecursionError"
    /\ out' = ErrorGraph
    /\ pc' = "returned"
    /\ stack' = <<>>
    /\ UNCHANGED <<code, nodes, edges, functions, node_counter,
                   last_node_id, reentered, deadIfs>>

\* the orchestrator's loop is over: End, its edge, return nodes, edges
MainFinish ==
    /\ pc = "visit"
    /\ Top.kind = "main"
    /\ ~Active(Top)
    /\ LET e == add_node(nodes, node_counter, <<"End">>, ShapeJoiner) IN
       /\ nodes' = e.nodes
       /\ node_counter' = e.counter
       /\ edges' = IF Truthy(Top.cur) THEN Append(edges, <<Top.cur, e.id, "">>)
                                      ELSE edges
    /\ last_node_id' = Top.cur
    /\ stack' = <<>>
    /\ pc' = "built"
    /\ UNCHANGED <<code, exc, out, functions, reentered, deadIfs>>

\* generate_mermaid_flowchart renders the graph it got back
Serialize ==
    /\ pc = "built"
    /\ out' = Mermaid(nodes, edges)
    /\ pc' = "returned"
    /\ UNCHANGED <<code, exc, nodes, edges, functions, node_counter, stack,
                   last_node_id, reentered, deadIfs>>


\* ------------------------------------------------------------------ inputs

Seqs(S, lo, hi) == UNION {[1..k -> S] : k \in lo..hi}

\* nested control flow, no function definitions
InnerLeaves == {AssignS, ReturnS, BreakS, ContinueS}

InnerBlocks == Seqs(InnerLeaves, 1, MaxBlock)

ElseBlocks == Seqs(InnerLeaves, 0, 1)

Compound1 ==
    {IfS(b, e) : b \in InnerBlocks, e \in ElseBlocks}
        \cup {WhileS(b) : b \in InnerBlocks}
        \cup {OtherS(b) : b \in InnerBlocks}

Tails == Seqs({AssignS, BreakS}, 0, 1)

Compound2 ==
    {WhileS(<<c>> \o t) : c \in Compound1, t \in Tails}
        \cup {ForS(<<c>> \o t) : c \in Compound1, t \in {<<ContinueS>>}}
        \cup {IfS(<<c>> \o t, <<>>) : c \in Compound1, t \in Tails}
        \cup {OtherS(<<c>>) : c \in Compound1}

NestedTrees == {<<c>> \o t : c \in Compound1 \cup Compound2, t \in Tails}

\* straight-line programs
PlainLeaves == {AssignS, AugAssignS, PrintS, CallS("g")}

PlainTrees ==
    {d \o m : d \in {<<>>, <<DefS("f", <<AssignS>>)>>}, m \in Seqs(PlainLeaves, 0, MaxMain)}

\* function definitions and call sites
FuncLeaves == {AssignS, ReturnS, CallS("f"), CallS("g")}

FuncBodies ==
    Seqs(FuncLeaves, 1, MaxBlock)
        \cup {<<BreakS>>, <<ContinueS, AssignS>>,
              <<WhileS(<<BreakS>>), BreakS>>,
              <<IfS(<<ReturnS>>, <<ReturnS>>), AssignS>>,
              <<IfS(<<CallS("f")>>, <<>>)>>,
              <<OtherS(<<CallS("g")>>)>>}

\* bodies of a second definition
OtherBodies ==
    {<<AssignS>>, <<ReturnS, AssignS>>, <<CallS("f")>>, <<CallS("g")>>, <<BreakS>>}

DefLists ==
    {<<DefS("f", b)>> : b \in FuncBodies}
        \cup {<<DefS("f", b1), DefS("g", b2)>> : b1 \in FuncBodies, b2 \in OtherBodies}
        \cup {<<DefS("g", b1), DefS("f", b2)>> : b1 \in FuncBodies, b2 \in OtherBodies}
        \cup {<<DefS("f", b1), DefS("f", b2)>> : b1 \in FuncBodies, b2 \in OtherBodies}

FuncMains ==
    {<<>>, <<CallS("f")>>, <<CallS("f"), AssignS>>, <<AssignS, CallS("g")>>,
     <<WhileS(<<CallS("f")>>)>>, <<IfS(<<CallS("f")>>, <<AssignS>>)>>}

\* the first definition, the main statements, the other definitions
FuncTrees == {<<Head(d)>> \o m \o Tail(d) : d \in DefLists, m \in FuncMains}

Trees == NestedTrees \cup PlainTrees \cup FuncTrees

Codes == {[parses |-> TRUE, tree |-> t] : t \in Trees}
            \cup {[parses |-> FALSE, tree |-> <<>>]}

\* ------------------------------------------------------------ specification

Init ==
    /\ code \in Codes
    /\ pc = "start"
    /\ exc = ""
    /\ out = <<>>
    /\ nodes = <<>>
    /\ edges = <<>>
    /\ functions = <<>>
    /\ node_counter = 0
    /\ stack = <<>>
    /\ last_node_id = None
    /\ reentered = FALSE
    /\ deadIfs = {}

Next ==
    \/ BeginBuild
    \/ RaiseSyntaxError
    \/ VisitAssign
    \/ VisitExpr
    \/ VisitReturn
    \/ VisitBreak
    \/ VisitContinue
    \/ VisitCall
    \/ InlineFinish
    \/ VisitIf
    \/ IfBodyDone
    \/ IfFinish
    \/ VisitLoop
    \/ LoopFinish
    \/ VisitOther
    \/ OtherFinish
    \/ RaiseRecursionError
    \/ MainFinish
    \/ Serialize

Spec == Init /\ [][Next]_vars

\* The programs that define functions (and the unparsable input), with every
\* step of the single synchronous call taken.
LiveInit == Init /\ (code.parses => code.tree \in FuncTrees)

LiveSpec == LiveInit /\ [][Next]_vars /\ WF_vars(Next)


\* ============================================================== properties

\* parse_code_to_ast returned its graph
Completed == pc = "built" \/ (pc = "returned" /\ exc = "")

NodeIds == {nodes[i].key : i \in 1..Len(nodes)}

NodeOf(id) == nodes[CHOOSE i \in 1..Len(nodes) : nodes[i].key = id].val

IsSentinel(item, caption) ==
    item.val.label = <<caption>> /\ item.val.shape = ShapeJoiner

\* the indices of the edges with this target and label
Inbound(id, label) == {i \in 1..Len(edges) : edges[i][2] = id /\ edges[i][3] = label}

\* the top-level function definitions of the input, in source order
Defs(tree) == SelectSeq(tree, LAMBDA n : n.type = "FunctionDef")

DefNames(tree) == {Defs(tree)[i].func : i \in 1..Len(Defs(tree))}

\* the activations of a for/while body on the stack, and the innermost one
LoopFrames(st) == {k \in 1..Len(st) : st[k].kind = "loop"}

InLoop(st) == LoopFrames(st) # {}

Innermost(st) == st[CHOOSE k \in LoopFrames(st) : \A j \in LoopFrames(st) : j <= k]

\* ---------------------------------------------------------------------- C1

\* C1: the merge node of a conditional receives at most one inbound edge
\* labeled "Yes" and at most one labeled "No" (the decision->merge edge of an
\* empty branch stands in for the branch-end edge, it is not added to it), so
\* no edge into a merge node is recorded twice.
C1_MergeEdgesOnce ==
    \A i \in 1..Len(nodes) :
        /\ Cardinality(Inbound(nodes[i].key, "Yes")) <= 1
        /\ Cardinality(Inbound(nodes[i].key, "No")) <= 1

\* ---------------------------------------------------------------------- C2

\* C2: after any build every recorded edge has a source id and a target id
\* that are both in the node store, so the serializer skips no edge: the text
\* has one line per node and one per edge after the header.
C2_EdgesReferenceNodes ==
    Completed =>
        /\ \A i \in 1..Len(edges) : edges[i][1] \in NodeIds /\ edges[i][2] \in NodeIds
        /\ pc = "returned" => Len(out) = 1 + Len(nodes) + Len(edges)

\* ---------------------------------------------------------------------- C3

FirstDef(tree) == Defs(tree)[1]

LastDefNamed(tree, name) ==
    LET ds == Defs(tree)
        k  == CHOOSE j \in 1..Len(ds) :
                 /\ ds[j].func = name
                 /\ \A l \in 1..Len(ds) : ds[l].func = name => l <= j
    IN  ds[k]

\* no main statement, at least one definition
ImplicitEntry(c) == c.parses /\ MainBody(c.tree) = <<>> /\ Defs(c.tree) # <<>>

\* Start, then the subroutine node naming the first definition, from which
\* the walk of the body starts
EntryNode ==
    /\ nodes[1].val = [label |-> <<"Start">>, shape |-> ShapeJoiner]
    /\ nodes[2].val = [label |-> <<"def ", FirstDef(code.tree).func, "(...)">>,
                       shape |-> ShapeSubroutine]
    /\ edges[1] = <<NodeId(0), NodeId(1), "">>
    /\ (Len(stack) = 1 /\ stack[1].i = 1) => stack[1].cur = NodeId(1)

\* C3 (as stated): with an empty main body and at least one definition the
\* build emits Start, a subroutine node naming the first definition in source
\* order, and inlines the body of that same first definition, also when a
\* later definition reuses its name.
C3_InlinesFirstDefinition ==
    (pc = "visit" /\ ImplicitEntry(code)) =>
        /\ EntryNode
        /\ stack[1].stmts = FirstDef(code.tree).body

\* C3 (amended): with an empty main body and at least one definition the
\* build emits Start, a subroutine node naming the first definition in source
\* order, and inlines the body the function table holds for that name: the
\* body of the last top-level definition that carries the name.
C3_InlinesTableBody ==
    (pc = "visit" /\ ImplicitEntry(code)) =>
        /\ EntryNode
        /\ stack[1].stmts = LastDefNamed(code.tree, FirstDef(code.tree).func).body

C3_Witness ==
    /\ pc = "visit"
    /\ ImplicitEntry(code)
    /\ Len(Defs(code.tree)) = 2
    /\ Defs(code.tree)[1].func = Defs(code.tree)[2].func
    /\ Defs(code.tree)[1].body # Defs(code.tree)[2].body
    /\ stack[1].i > 1
    /\ Len(nodes) > 2

\* ---------------------------------------------------------------------- C4

\* every loop header is followed at once by its exit node; a header has no
\* "End Loop" edge while its body is visited and exactly one, to its exit,
\* afterwards
LoopExitsInPlace ==
    \A i \in 1..Len(nodes) :
        nodes[i].val.shape = ShapeLoop =>
            /\ i < Len(nodes)
            /\ nodes[i + 1].val = [label |-> <<" ">>, shape |-> ShapeJoiner]
            /\ LET ends == {k \in 1..Len(edges) : /\ edges[k][1] = nodes[i].key
                                                  /\ edges[k][3] = "End Loop"}
                   open == \E f \in 1..Len(stack) : /\ stack[f].kind = "loop"
                                                    /\ stack[f].id1 = nodes[i].key
               IN  /\ \A k \in ends : edges[k][2] = nodes[i + 1].key
                   /\ (pc = "visit" \/ Completed) =>
                        Cardinality(ends) = IF open THEN 0 ELSE 1

EndLoopFromHeaders ==
    \A k \in 1..Len(edges) :
        edges[k][3] = "End Loop" => NodeOf(edges[k][1]).shape = ShapeLoop

\* the edges a step appends
JumpsToInnermost ==
    \A k \in (Len(edges) + 1)..Len(edges') :
        /\ edges'[k][3] = "break" =>
              InLoop(stack) /\ edges'[k][2] = Innermost(stack).id2
        /\ edges'[k][3] = "continue" =>
              InLoop(stack) /\ edges'[k][2] = Innermost(stack).id1

\* C4: the exit node of a loop is created right after its header, before any
\* body node; exactly one "End Loop" edge runs from the header to that exit
\* whatever the body holds; every "break" edge targets the exit, and every
\* "continue" edge the header, of the innermost loop being visited, never
\* those of an outer loop.
C4_LoopContext ==
    [](LoopExitsInPlace /\ EndLoopFromHeaders) /\ [][JumpsToInnermost]_vars

\* a break of an inner loop went to the inner exit, the inner loop is over,
\* and a break of the outer loop went to the outer exit
C4_Witness ==
    /\ pc = "visit"
    /\ Cardinality(LoopFrames(stack)) = 1
    /\ \E k1 \in 1..Len(edges), k2 \in 1..Len(edges), k3 \in 1..Len(edges) :
          /\ edges[k1][3] = "break"
          /\ edges[k2][3] = "break"
          /\ edges[k3][3] = "End Loop"
          /\ edges[k1][2] = edges[k3][2]
          /\ edges[k2][2] = Innermost(stack).id2
          /\ edges[k1][2] # edges[k2][2]

\* ---------------------------------------------------------------------- C5

\* the step that ends an if whose branches both returned None
BothTerminateStep ==
    (/\ pc = "visit"
     /\ Top.kind = "ifelse"
     /\ ~Active(Top)
     /\ Top.id2 = None
     /\ Top.cur = None)
    => /\ nodes' = nodes
       /\ edges' = edges
       /\ Len(stack') = Len(stack) - 1
       /\ stack'[Len(stack')].cur = None

\* no edge leads from a node of such an if to a node created after it
DeadIfsNoOutgoing ==
    \A d \in deadIfs :
        \A k \in 1..Len(edges) :
            (edges[k][1] # None /\ edges[k][1][2] \in d[1]..(d[2] - 1))
                => edges[k][2][2] < d[2]

EndInbound ==
    Completed =>
        LET endId == nodes[Len(nodes)].key
            into  == {k \in 1..Len(edges) : edges[k][2] = endId}
        IN  /\ nodes[Len(nodes)].val.label = <<"End">>
            /\ IF last_node_id = None
               THEN into = {}
               ELSE into = {Len(edges)} /\ edges[Len(edges)] = <<last_node_id, endId, "">>

\* C5: an if whose two branches both return None creates no merge node and
\* returns None; nothing is chained from it: no edge leads from its nodes to
\* a node created after it; End is created last and receives exactly one
\* inbound edge, from the final chained node, when the final chained value
\* is not None, and none when it is None.
C5_BothBranchesTerminate ==
    [](DeadIfsNoOutgoing /\ EndInbound) /\ [][BothTerminateStep]_vars

\* the program is one if/else whose branches both return
C5_Witness ==
    /\ pc = "built"
    /\ Len(code.tree) = 1
    /\ code.tree[1].type = "If"
    /\ deadIfs = {<<1, 4>>}
    /\ last_node_id = None
    /\ Len(nodes) = 5
    /\ \A k \in 1..Len(edges) : edges[k][2] # nodes[5].key

\* ---------------------------------------------------------------------- C6

\* C6: when parsing or the build fails, generate_mermaid_flowchart returns
\* exactly the fallback graph: the header line and one error-labeled node,
\* no edge, and nothing of what the failed build had created.
C6_FallbackOnFailure ==
    exc # "" =>
        /\ pc = "returned"
        /\ Len(out) = 2
        /\ out[1] = <<"graph TD">>
        /\ out[2] = <<"node", <<"A">>, "[", <<"Error: Could not parse code">>, "]">>

C6_Witness ==
    /\ exc = "RecursionError"
    /\ pc = "returned"
    /\ Len(nodes) > 2
    /\ Len(edges) > 1

\* ---------------------------------------------------------------------- C7

\* C7: in every state the node store holds exactly N0..N(k-1) after k
\* creations, in creation order; a completed build has exactly one Start
\* sentinel, which is N0, and exactly one End sentinel, which is the last node.
C7_IdsAndSentinels ==
    /\ Len(nodes) = node_counter
    /\ \A i \in 1..Len(nodes) : nodes[i].key = NodeId(i - 1)
    /\ Completed =>
        /\ {i \in 1..Len(nodes) : IsSentinel(nodes[i], "Start")} = {1}
        /\ {i \in 1..Len(nodes) : IsSentinel(nodes[i], "End")} = {Len(nodes)}

C7_Witness ==
    /\ pc = "built"
    /\ Len(nodes) >= 6
    /\ reentered = FALSE
    /\ \E i \in 1..Len(nodes) : nodes[i].val.shape = ShapeLoop

\* ---------------------------------------------------------------------- C8

\* every main statement is an assignment or a call of a name that no
\* definition of the program carries
IsStraightLine(c) ==
    /\ c.parses
    /\ LET main == MainBody(c.tree) IN
       /\ main # <<>> \/ Defs(c.tree) = <<>>
       /\ \A i \in 1..Len(main) :
            \/ main[i].type \in {"Assign", "AugAssign"}
            \/ /\ main[i].type = "Expr"
               /\ main[i].func # ""
               /\ main[i].func \notin DefNames(c.tree)

\* C8: a main body of n >= 0 straight-line statements gives n+2 nodes and
\* n+1 unlabeled edges: the chain Start -> s1 -> ... -> sn -> End, one node
\* per statement in source order; a call of an unknown name is one node.
C8_StraightLineChain ==
    (Completed /\ IsStraightLine(code)) =>
        LET main == MainBody(code.tree)
            n    == Len(main)
        IN  /\ Len(nodes) = n + 2
            /\ Len(edges) = n + 1
            /\ \A i \in 1..(n + 1) : edges[i] = <<NodeId(i - 1), NodeId(i), "">>
            /\ \A i \in 1..n : nodes[i + 1].val.label = main[i].text
            /\ nodes[1].val.label = <<"Start">>
            /\ nodes[n + 2].val.label = <<"End">>

C8_Witness ==
    /\ pc = "built"
    /\ IsStraightLine(code)
    /\ Len(MainBody(code.tree)) = MaxMain
    /\ Defs(code.tree) # <<>>
    /\ \E i \in 1..MaxMain : MainBody(code.tree)[i].func = "g"
    /\ \E i \in 1..MaxMain : MainBody(code.tree)[i].type = "Assign"

\* ---------------------------------------------------------------------- C9

\* C9: a build in which no function is inlined while its own body is being
\* inlined reaches the creation of End; once a function is inlined again
\* inside its own body the nesting of visit grows up to the interpreter's
\* limit and End is never created.
C9_Termination ==
    /\ <>(reentered \/ exc = "SyntaxError" \/ pc = "built")
    /\ (reentered /\ pc = "visit") ~> (Len(stack) >= MaxDepth)
    /\ reentered ~> (exc = "RecursionError")
    /\ [](reentered => (pc # "built" /\ (pc = "returned" => exc = "RecursionError")))

C9_Witness ==
    /\ reentered
    /\ exc = "RecursionError"
    /\ Len(nodes) > MaxDepth

\* --------------------------------------------------------------------- C10

\* a break or continue statement is about to be visited
AtBreakOrContinue ==
    /\ pc = "visit"
    /\ Active(Top)
    /\ Child.type \in {"Break", "Continue"}

BreakContinueStep ==
    AtBreakOrContinue =>
        /\ nodes' = nodes
        /\ node_counter' = node_counter
        /\ Len(stack') = Len(stack)
        /\ stack'[Len(stack)].cur = None
        /\ IF InLoop(stack)
           THEN edges' = Append(edges,
                    IF Child.type = "Break"
                    THEN <<Top.cur, Innermost(stack).id2, "break">>
                    ELSE <<Top.cur, Innermost(stack).id1, "continue">>)
           ELSE edges' = edges

\* C10: visiting a break or continue creates no node and returns None; with
\* no loop context it leaves the graph store unchanged, with one it adds
\* exactly one edge, from the current predecessor to the exit (break) or the
\* header (continue) of the loop.
C10_BreakContinueEffect == [][BreakContinueStep]_vars

\* a break outside any loop was just visited, after a break inside a loop
C10_Witness ==
    /\ pc = "visit"
    /\ ~InLoop(stack)
    /\ Top.i > 1
    /\ Top.stmts[Top.i - 1].type = "Break"
    /\ Top.cur = None
    /\ \E k \in 1..Len(edges) : edges[k][3] = "break"

====
